---- MODULE Spec2Model ----
(***************************************************************************)
(* Model of backend/games_sales/sales/models.py: the Rating / Game / Sale  *)
(* records with their managers and save() overrides, and the static query  *)
(* helpers of Sale (order_by_mapping, filter_by_params, search_by_text,    *)
(* get_top_n_fields_for_sale_type).                                        *)
(*                                                                         *)
(* Conventions.                                                            *)
(*   - A string is a sequence of tokens, so that value[0], value[1:],       *)
(*     concatenation, substring tests and case folding are computed.  The  *)
(*     texts that are searched or parsed are spelled character by          *)
(*     character; in sort keys "-" is a token and a field name, "game__"   *)
(*     and "game__rating__" are one token each.                            *)
(*   - A nullable column holds a set with at most one element: {} is NULL, *)
(*     {v} is the value v.  A lookup on NULL matches nothing, as in SQL.   *)
(*   - A float column of sales holds an integer number of thousandths.     *)
(***************************************************************************)
EXTENDS Integers, Sequences, FiniteSets, TLC

VARIABLES
    call,     \* the arguments of the static helper being called
    ret,      \* its outcome: [status |-> "pending" | "ok" | <exception>, ...]
    ratings,  \* stored Rating rows: set of ids
    games,    \* stored Game rows: id -> row
    sales,    \* stored Sale rows: id -> row
    procs,    \* requests inside SaleManager.create: process -> position
    nextId    \* the next primary key handed out

vars == <<call, ret, ratings, games, sales, procs, nextId>>

dbvars == <<ratings, games, sales, procs, nextId>>

----------------------------------------------------------------------------
(* Strings *)

None == {}

Some(x) == {x}

Range(s) == {s[i] : i \in 1..Len(s)}

\* str.lower() on the characters the model uses.
Lower(c) ==
    CASE c = "A" -> "a" [] c = "D" -> "d" [] c = "E" -> "e" [] c = "G" -> "g"
      [] c = "M" -> "m" [] c = "N" -> "n" [] c = "P" -> "p" [] c = "S" -> "s"
      [] c = "T" -> "t" [] c = "W" -> "w"
      [] OTHER -> c

LowerStr(s) == [i \in 1..Len(s) |-> Lower(s[i])]

\* t occurs in s as a contiguous substring (LIKE %t%, case kept).
Contains(s, t) ==
    \E i \in 0..(Len(s) - Len(t)) : SubSeq(s, i + 1, i + Len(t)) = t

\* the same with both sides case-folded (icontains).
IContains(s, t) == Contains(LowerStr(s), LowerStr(t))

Digits == {"0", "1", "2", "3", "4", "5", "6", "7", "8", "9"}

DigitVal(c) ==
    CASE c = "0" -> 0 [] c = "1" -> 1 [] c = "2" -> 2 [] c = "3" -> 3
      [] c = "4" -> 4 [] c = "5" -> 5 [] c = "6" -> 6 [] c = "7" -> 7
      [] c = "8" -> 8 [] c = "9" -> 9

RECURSIVE Strip(_)
\* str.strip() of blanks, as int() does before it parses.
Strip(s) ==
    IF s = <<>> THEN s
    ELSE IF Head(s) = " " THEN Strip(Tail(s))
    ELSE IF s[Len(s)] = " " THEN Strip(SubSeq(s, 1, Len(s) - 1))
    ELSE s

Unsigned(s) ==
    LET t == Strip(s)
    IN  IF t # <<>> /\ Head(t) \in {"-", "+"} THEN Tail(t) ELSE t

\* int(s) does not raise ValueError.
IntParses(s) ==
    LET d == Unsigned(s) IN d # <<>> /\ Range(d) \subseteq Digits

RECURSIVE DigitsValue(_)
DigitsValue(d) ==
    IF d = <<>> THEN 0
    ELSE 10 * DigitsValue(SubSeq(d, 1, Len(d) - 1)) + DigitVal(d[Len(d)])

\* int(s), for an s that parses.
IntValue(s) ==
    LET t == Strip(s)
    IN  IF Head(t) = "-" THEN 0 - DigitsValue(Unsigned(s))
        ELSE DigitsValue(Unsigned(s))

\* core.utils.is_int: whether the text parses as an integer.
is_int(text) == IntParses(text)

----------------------------------------------------------------------------
(* Rows the query helpers run over: Sale rows joined with their Game       *)
(* (Sale.objects.all() selects game and game__rating).                     *)

Row(name, platform, publisher, developer, genre, esrb, year, na, gl) ==
    [name |-> Some(name), platform |-> platform, publisher |-> publisher,
     developer |-> developer, genre |-> genre, esrb_rating |-> esrb,
     year_of_release |-> year, na_sales |-> na, global_sales |-> gl]

SalePool ==
    << Row(<<"W","i","i">>, Some(<<"W","i","i">>), Some(<<"N","i","n">>),
           None, Some(<<"S","p">>), Some(<<"E">>), Some(2006),
           Some(4125), Some(8250)),
       Row(<<"G","T","A">>, Some(<<"P","S">>), Some(<<"T","k">>),
           Some(<<"R","k">>), Some(<<"A","c">>), Some(<<"M">>), Some(2008),
           Some(1015), Some(2015)),
       Row(<<"n","i","n">>, None, None, None, None, None, None,
           None, Some(1005)),
       Row(<<"D","s","p">>, Some(<<"D","S">>), Some(<<"n","i","n">>),
           Some(<<"p","s">>), Some(<<"s","p">>), Some(<<"E","1","0","+">>),
           Some(2006), Some(4125), None),
       Row(<<"2","0","0","6">>, Some(<<"P","S">>), Some(<<"T","k">>),
           Some(<<"R","k">>), Some(<<"A","c">>), Some(<<"T">>), Some(2007),
           None, Some(13)) >>

RowIds == 1..Len(SalePool)

----------------------------------------------------------------------------
(* Sale.order_by_mapping *)

game_fields ==
    {"name", "platform", "publisher", "developer", "genre", "esrb_rating",
     "year_of_release"}

rating_fields == {"critic_score", "critic_count", "user_score", "user_count"}

sale_fields ==
    {"eu_sales", "jp_sales", "na_sales", "global_sales", "other_sales"}

\* The public field names: those SALE_ORDER_BY_FIELDS lists, as columns.
PublicFields == game_fields \cup rating_fields \cup sale_fields

Ok(v) == [status |-> "ok", value |-> v]

Raised(e) == [status |-> e, value |-> <<>>]

Pending == [status |-> "pending", value |-> <<>>]

\* A mapping that maps the rating fields like the game fields.
order_by_mapping_flat(value, default) ==
    LET v0 == IF value = <<>> THEN default ELSE value
        in_reverse == v0[1] = "-"
        v1 == IF in_reverse THEN Tail(v0) ELSE v0
        v2 == IF Len(v1) = 1 /\ v1[1] \in game_fields \cup rating_fields
              THEN <<"game__">> \o v1 ELSE v1
    IN  IF v0 = <<>> THEN Raised("IndexError")
        ELSE Ok(IF in_reverse THEN <<"-">> \o v2 ELSE v2)

\* A mapping that loses the descending marker of a mapped name.
order_by_mapping_unsigned(value, default) ==
    LET v0 == IF value = <<>> THEN default ELSE value
        in_reverse == v0[1] = "-"
        v1 == IF in_reverse THEN Tail(v0) ELSE v0
    IN  IF v0 = <<>> THEN Raised("IndexError")
        ELSE IF Len(v1) = 1 /\ v1[1] \in game_fields
        THEN Ok(<<"game__">> \o v1)
        ELSE IF Len(v1) = 1 /\ v1[1] \in rating_fields
        THEN Ok(<<"game__rating__">> \o v1)
        ELSE Ok(v0)

order_by_mapping(value, default) ==
    LET v0 == IF value = <<>> THEN default ELSE value
        in_reverse == v0[1] = "-"
        v1 == IF in_reverse THEN Tail(v0) ELSE v0
        v2 == IF Len(v1) = 1 /\ v1[1] \in game_fields
              THEN <<"game__">> \o v1
              ELSE IF Len(v1) = 1 /\ v1[1] \in rating_fields
              THEN <<"game__rating__">> \o v1
              ELSE v1
    IN  IF v0 = <<>> THEN Raised("IndexError")
        ELSE Ok(IF in_reverse THEN <<"-">> \o v2 ELSE v2)

\* Names a request may carry: the public fields, the primary key, a typo,
\* and a name that is already a storage path.
OrderNames ==
    {<<f>> : f \in PublicFields \cup {"id", "nmae"}}
        \cup {<<"game__", "name">>}

OrderValues ==
    {<<>>, <<"-">>} \cup OrderNames \cup {<<"-">> \o v : v \in OrderNames}
        \cup {<<"-", "-">> \o v : v \in OrderNames}

OrderDefaults == {<<"id">>, <<"-", "id">>, <<"name">>, <<"-", "user_score">>, <<>>}

EmptyDb ==
    /\ ratings = {}
    /\ games = <<>>
    /\ sales = <<>>
    /\ procs = <<>>
    /\ nextId = 1

InitOrder ==
    /\ call \in [op : {"order_by_mapping"}, value : OrderValues,
                 default : OrderDefaults]
    /\ ret = Pending
    /\ EmptyDb

OrderByMapping ==
    /\ call.op = "order_by_mapping"
    /\ ret.status = "pending"
    /\ ret' = order_by_mapping(call.value, call.default)
    /\ UNCHANGED <<call, dbvars>>

NextOrder == OrderByMapping

SpecOrder == InitOrder /\ [][NextOrder]_vars

\* What order_by_mapping works on once an empty value gave way to the default.
OrderEffective == IF call.value = <<>> THEN call.default ELSE call.value

OrderDescending == OrderEffective # <<>> /\ OrderEffective[1] = "-"

OrderBase == IF OrderDescending THEN Tail(OrderEffective) ELSE OrderEffective

OrderReturned == call.op = "order_by_mapping" /\ ret.status = "ok"

\* The descending marker taken off a sort key.
StripMarker(v) == IF v # <<>> /\ v[1] = "-" THEN Tail(v) ELSE v

\* The join prefix taken off a storage path.
StripJoin(v) ==
    IF v # <<>> /\ v[1] \in {"game__", "game__rating__"} THEN Tail(v) ELSE v

\* C6: order_by_mapping replaces an empty value by the default; with one
\* leading "-" removed, a game field maps to game__<name>, a rating field to
\* game__rating__<name>, and every other name (sales fields, unknown names)
\* is returned unchanged; the result starts with "-" exactly when the value
\* it worked on did.
C6_OrderByMapping ==
    OrderReturned =>
        /\ OrderEffective # <<>>
        /\ LET mapped == StripMarker(ret.value)
           IN  /\ (\E f \in game_fields : OrderBase = <<f>>)
                      => mapped = <<"game__">> \o OrderBase
               /\ (\E f \in rating_fields : OrderBase = <<f>>)
                      => mapped = <<"game__rating__">> \o OrderBase
               /\ (~ \E f \in game_fields \cup rating_fields : OrderBase = <<f>>)
                      => ret.value = OrderEffective
        /\ (ret.value # <<>> /\ ret.value[1] = "-") <=> OrderDescending

\* a descending rating field given through the default has been mapped
C6_Witness ==
    /\ OrderReturned
    /\ call.value = <<>>
    /\ ret.value = <<"-", "game__rating__", "user_score">>

\* C7 as stated: taking the descending marker off order_by_mapping(f)
\* recovers the public field name f.
C7_RoundTripExact ==
    (OrderReturned /\ \E f \in PublicFields : OrderBase = <<f>>)
        => StripMarker(ret.value) = OrderBase

\* C7 amended: for a public field name f, with or without a leading "-",
\* taking the descending marker and the join prefix (game__ or
\* game__rating__) off order_by_mapping(f) recovers f; the marker alone
\* recovers f exactly for the sales fields.
C7_RoundTripJoin ==
    (OrderReturned /\ call.value # <<>>
        /\ \E f \in PublicFields : OrderBase = <<f>>)
        => /\ StripJoin(StripMarker(ret.value)) = OrderBase
           /\ (StripMarker(ret.value) = OrderBase
                  <=> OrderBase[1] \in sale_fields)
           /\ (OrderBase[1] \in rating_fields
                  <=> StripMarker(ret.value)[1] = "game__rating__")

C7_Witness ==
    /\ OrderReturned
    /\ call.value = <<"-", "critic_count">>
    /\ ret.value = <<"-", "game__rating__", "critic_count">>

----------------------------------------------------------------------------
(* Sale.filter_by_params *)

FilterNames == {"genre", "esrb_rating", "yor_lt", "yor_gt", "year_of_release"}

IntFilters == {"yor_lt", "yor_gt", "year_of_release"}

\* The rows of cur that filters_map[key] keeps, value being params[key].
ApplyFilter(cur, key, value) ==
    CASE key = "genre" ->
            {id \in cur : \E g \in SalePool[id].genre : Contains(g, value)}
      [] key = "esrb_rating" ->
            {id \in cur : \E e \in SalePool[id].esrb_rating : Contains(e, value)}
      [] key = "yor_lt" ->
            {id \in cur : \E y \in SalePool[id].year_of_release : y < IntValue(value)}
      [] key = "yor_gt" ->
            {id \in cur : \E y \in SalePool[id].year_of_release : y > IntValue(value)}
      [] key = "year_of_release" ->
            {id \in cur : \E y \in SalePool[id].year_of_release : y = IntValue(value)}

RECURSIVE FilterLoop(_, _)
\* The loop over params: cur is the local sales, which every closure of
\* filters_map reads when it is called; rest are the items still to come.
FilterLoop(cur, rest) ==
    IF rest = <<>> THEN Ok(cur)
    ELSE LET key == rest[1][1]
             value == rest[1][2]
         IN  IF key \notin FilterNames THEN Raised("KeyError")
             ELSE IF key \in IntFilters /\ ~ IntParses(value)
             THEN Raised("ValueError")
             ELSE FilterLoop(ApplyFilter(cur, key, value), Tail(rest))

RECURSIVE FilterLoopBound(_, _, _)
FilterLoopBound(first, cur, rest) ==
    IF rest = <<>> THEN Ok(cur)
    ELSE LET key == rest[1][1]
             value == rest[1][2]
         IN  IF key \notin FilterNames THEN Raised("KeyError")
             ELSE IF key \in IntFilters /\ ~ IntParses(value)
             THEN Raised("ValueError")
             ELSE FilterLoopBound(first, ApplyFilter(first, key, value), Tail(rest))

\* Closures that keep the queryset they were built with: each filter runs
\* on the records passed in, so only the last one decides the result.
filter_by_params_bound(records, params) == FilterLoopBound(records, records, params)

\* A lookup that skips the names filters_map does not hold.
filter_by_params_lenient(records, params) ==
    FilterLoop(records, SelectSeq(params, LAMBDA kv : kv[1] \in FilterNames))

filter_by_params(records, params) == FilterLoop(records, params)

MaxParams == 3

ParamItems ==
    ({"genre"} \X {<<"p">>, <<"S">>})
        \cup ({"esrb_rating"} \X {<<"E">>, <<"M">>})
        \cup ({"yor_lt"} \X {<<"2","0","0","8">>, <<"x">>})
        \cup ({"yor_gt"} \X {<<" ","2","0","0","6">>, <<"2","0","0","x">>})
        \cup ({"year_of_release"} \X {<<"2","0","0","6">>, <<>>})
        \cup ({"platform"} \X {<<"P","S">>})

\* A mapping in its iteration order: no key twice.
ParamMappings ==
    {ps \in UNION {[1..n -> ParamItems] : n \in 0..MaxParams} :
        \A i, j \in 1..Len(ps) : ps[i][1] = ps[j][1] => i = j}

InitFilter ==
    /\ call \in [op : {"filter_by_params"}, sales : SUBSET RowIds,
                 params : ParamMappings]
    /\ ret = Pending
    /\ EmptyDb

FilterByParams ==
    /\ call.op = "filter_by_params"
    /\ ret.status = "pending"
    /\ ret' = filter_by_params(call.sales, call.params)
    /\ UNCHANGED <<call, dbvars>>

NextFilter == FilterByParams

SpecFilter == InitFilter /\ [][NextFilter]_vars

FilterDone == call.op = "filter_by_params" /\ ret.status # "pending"

Orders(n) == {p \in [1..n -> 1..n] : \A i, j \in 1..n : p[i] = p[j] => i = j}

Reordered(ps, p) == [i \in 1..Len(ps) |-> ps[p[i]]]

ParamsValid ==
    \A i \in 1..Len(call.params) :
        /\ call.params[i][1] \in FilterNames
        /\ call.params[i][1] \in IntFilters => IntParses(call.params[i][2])

\* The predicate a filter name and its value stand for.
Satisfies(row, key, value) ==
    CASE key = "genre" -> row.genre # {} /\ \A g \in row.genre : Contains(g, value)
      [] key = "esrb_rating" ->
            row.esrb_rating # {} /\ \A e \in row.esrb_rating : Contains(e, value)
      [] key = "yor_lt" -> \E y \in row.year_of_release : y < IntValue(value)
      [] key = "yor_gt" -> \E y \in row.year_of_release : y > IntValue(value)
      [] key = "year_of_release" -> row.year_of_release = {IntValue(value)}

\* C1: with recognized keys and integer values that parse, filter_by_params
\* returns exactly the records that satisfy every supplied predicate, and
\* returns that same set for every order in which params is iterated.
C1_FiltersConjunctive ==
    (FilterDone /\ ParamsValid) =>
        /\ ret.status = "ok"
        /\ ret.value =
              {id \in call.sales :
                  \A i \in 1..Len(call.params) :
                      Satisfies(SalePool[id], call.params[i][1], call.params[i][2])}
        /\ \A p \in Orders(Len(call.params)) :
              filter_by_params(call.sales, Reordered(call.params, p)) = ret

\* two filters, each of which alone keeps a record the other drops
C1_Witness ==
    /\ FilterDone
    /\ ParamsValid
    /\ Len(call.params) >= 2
    /\ ret.value # {}
    /\ \A i \in 1..Len(call.params) :
          ApplyFilter(call.sales, call.params[i][1], call.params[i][2])
              \ ret.value # {}

UnknownKeyAt(i) ==
    i \in 1..Len(call.params) /\ call.params[i][1] \notin FilterNames

BadIntAt(i) ==
    /\ i \in 1..Len(call.params)
    /\ call.params[i][1] \in IntFilters
    /\ ~ IntParses(call.params[i][2])

\* C2 as stated: a mapping with a key outside the recognized names always
\* ends in the unknown-filter error, whatever else it holds.
C2_UnknownKeyAlwaysKeyError ==
    (FilterDone /\ \E i \in 1..Len(call.params) : UnknownKeyAt(i))
        => ret.status = "KeyError"

\* C2 amended: a mapping with a key outside the recognized names never
\* returns records; it ends in the unknown-filter error unless a key iterated
\* before the first unknown one carries a non-integer value for an integer
\* filter, and then it ends in ValueError.
C2_UnknownKeyFirstError ==
    (FilterDone /\ \E i \in 1..Len(call.params) : UnknownKeyAt(i)) =>
        LET u == CHOOSE i \in 1..Len(call.params) :
                    UnknownKeyAt(i) /\ \A j \in 1..(i - 1) : ~ UnknownKeyAt(j)
        IN  /\ ret.status \in {"KeyError", "ValueError"}
            /\ ret.status = "ValueError" <=> \E j \in 1..(u - 1) : BadIntAt(j)

\* an unknown key after valid filters, and a bad integer after the unknown key
C2_Witness ==
    /\ FilterDone
    /\ ret.status = "KeyError"
    /\ UnknownKeyAt(2)
    /\ BadIntAt(3)

----------------------------------------------------------------------------
(* Sale.search_by_text *)

TextFields == {"name", "platform", "publisher", "developer", "genre"}

\* A search that wants the text in every field.
search_by_text_all(records, text) ==
    IF is_int(text)
    THEN Ok({id \in records :
                \E y \in SalePool[id].year_of_release : y = IntValue(text)})
    ELSE Ok({id \in records :
                \A f \in TextFields :
                    \E s \in SalePool[id][f] : IContains(s, text)})

search_by_text(records, text) ==
    IF is_int(text)
    THEN Ok({id \in records :
                \E y \in SalePool[id].year_of_release : y = IntValue(text)})
    ELSE Ok({id \in records :
                \/ \E s \in SalePool[id].name : IContains(s, text)
                \/ \E s \in SalePool[id].platform : IContains(s, text)
                \/ \E s \in SalePool[id].publisher : IContains(s, text)
                \/ \E s \in SalePool[id].developer : IContains(s, text)
                \/ \E s \in SalePool[id].genre : IContains(s, text)})

SearchTexts ==
    { <<"2","0","0","6">>, <<"2","0","0","7">>, <<"2","0","0">>,
      <<"n","i","n">>, <<"N","I">>, <<"s","p">>, <<"P","S">>, <<"E">>,
      <<"T","k"," ","R","k">>, <<"2","0","0","6"," ">>, <<>>, <<"-">> }

InitSearch ==
    /\ call \in [op : {"search_by_text"}, sales : SUBSET RowIds,
                 text : SearchTexts]
    /\ ret = Pending
    /\ EmptyDb

SearchByText ==
    /\ call.op = "search_by_text"
    /\ ret.status = "pending"
    /\ ret' = search_by_text(call.sales, call.text)
    /\ UNCHANGED <<call, dbvars>>

NextSearch == SearchByText

SpecSearch == InitSearch /\ [][NextSearch]_vars

SearchDone == call.op = "search_by_text" /\ ret.status # "pending"

----------------------------------------------------------------------------
(* Sale.get_top_n_fields_for_sale_type.  The DataFrame is a set of rows;  *)
(* its columns are game__<field> for the fields of Game, and the sales.   *)

map_field_to_db_field(field) == <<"game__", field>>

\* df[db_field] of one row.
Column(id, db_field) == SalePool[id][db_field[2]]

\* The keys groupby makes groups of: rows whose key is NaN are dropped.
GroupKeys(df, db_field) == UNION {Column(id, db_field) : id \in df}

RECURSIVE SumOver(_, _)
\* Series.sum over the rows ids: NaN is skipped, an empty sum is 0.
SumOver(ids, sale_type) ==
    IF ids = {} THEN 0
    ELSE LET id == CHOOSE x \in ids : TRUE
             v == SalePool[id][sale_type]
         IN  (IF v = {} THEN 0 ELSE CHOOSE x \in v : TRUE)
                 + SumOver(ids \ {id}, sale_type)

GroupSum(df, db_field, sale_type, key) ==
    SumOver({id \in df : key \in Column(id, db_field)}, sale_type)

\* Rounding that cuts the third decimal off.
RoundTruncating(v, decimals) == (v \div 10) * 10

\* Series.round(2) on thousandths: to the nearest hundredth, a half to even.
Round(v, decimals) ==
    LET q == v \div 10
        r == v % 10
    IN  IF r < 5 \/ (r = 5 /\ q % 2 = 0) THEN q * 10 ELSE (q + 1) * 10

\* groupby(db_field)[sale_type].sum().sort_values(ascending=False).round(2):
\* every series the sort may produce, as a sequence of <<key, sum>>.  The
\* sort is not stable, so groups of equal sum come in any order.
get_top_fields_series(df, db_field, sale_type) ==
    LET keys == GroupKeys(df, db_field)
        n == Cardinality(keys)
        sum(k) == GroupSum(df, db_field, sale_type, k)
    IN  { [i \in 1..n |-> <<o[i], Round(sum(o[i]), 2)>>] :
            o \in {o \in [1..n -> keys] :
                     /\ \A i, j \in 1..n : o[i] = o[j] => i = j
                     /\ \A i \in 1..(n - 1) : sum(o[i]) >= sum(o[i + 1])} }

\* seq[:n] of Python: a negative n counts from the end.
Slice(seq, n) ==
    IF n >= 0 THEN SubSeq(seq, 1, IF n < Len(seq) THEN n ELSE Len(seq))
    ELSE SubSeq(seq, 1, IF Len(seq) + n > 0 THEN Len(seq) + n ELSE 0)

get_top_fields_list(series, n, field) ==
    LET top == Slice(series, n)
    IN  [i \in 1..Len(top) |->
            [field |-> field, key |-> top[i][1], count |-> top[i][2]]]

MaxN == 3

TopFields == {"genre", "platform", "esrb_rating", "year_of_release"}

SaleTypes == {"na_sales", "global_sales"}

InitTop ==
    /\ call \in [op : {"get_top_n_fields_for_sale_type"}, df : SUBSET RowIds,
                 field : TopFields, sale_type : SaleTypes, n : (-2)..MaxN]
    /\ ret = Pending
    /\ EmptyDb

GetTopNFieldsForSaleType ==
    /\ call.op = "get_top_n_fields_for_sale_type"
    /\ ret.status = "pending"
    /\ \E top_fields_series \in
            get_top_fields_series(call.df, map_field_to_db_field(call.field),
                                  call.sale_type) :
          ret' = Ok(get_top_fields_list(top_fields_series, call.n, call.field))
    /\ UNCHANGED <<call, dbvars>>

NextTop == GetTopNFieldsForSaleType

SpecTop == InitTop /\ [][NextTop]_vars

TopDone == call.op = "get_top_n_fields_for_sale_type" /\ ret.status # "pending"

\* The groups of the call: the distinct values of the field, NULL left out.
TopGroups == UNION {SalePool[id][call.field] : id \in call.df}

\* The sum of the call's sale_type over the records of group k, absent
\* values skipped.
TopSum(k) ==
    SumOver({id \in call.df : SalePool[id][call.field] = {k}}, call.sale_type)

TopShape ==
    /\ ret.status = "ok"
    /\ Len(ret.value) =
          IF call.n < Cardinality(TopGroups) THEN call.n ELSE Cardinality(TopGroups)
    /\ \A i \in 1..Len(ret.value) :
          /\ ret.value[i].field = call.field
          /\ ret.value[i].key \in TopGroups
    /\ \A i, j \in 1..Len(ret.value) :
          ret.value[i].key = ret.value[j].key => i = j
    /\ \A i \in 1..(Len(ret.value) - 1) :
          ret.value[i].count >= ret.value[i + 1].count
    /\ \A i \in 1..Len(ret.value) :
          \A k \in TopGroups \ {ret.value[j].key : j \in 1..Len(ret.value)} :
              TopSum(k) <= TopSum(ret.value[i].key)

\* C4 as stated: for n >= 0 the result has min(n, groups) entries, one per
\* group, each count being the sum over the group, counts non-increasing,
\* no omitted group with a larger sum than a returned one.
C4_TopNExactSums ==
    (TopDone /\ call.n >= 0) =>
        /\ TopShape
        /\ \A i \in 1..Len(ret.value) :
              ret.value[i].count = TopSum(ret.value[i].key)

\* C4 amended: the same, each count being the sum over the group rounded
\* to two decimals (a half to even), and the groups being the distinct
\* non-null values of the field.
C4_TopNRoundedSums ==
    (TopDone /\ call.n >= 0) =>
        /\ TopShape
        /\ \A i \in 1..Len(ret.value) :
              LET sum == TopSum(ret.value[i].key)
                  c == ret.value[i].count
              IN  /\ c % 10 = 0
                  /\ c - sum \in (-5)..5
                  /\ (c - sum = 5 \/ sum - c = 5) => (c \div 10) % 2 = 0

\* a top 2 of three groups, two of them summed over two records, one sum
\* changed by the rounding
C4_Witness ==
    /\ TopDone
    /\ call.n = 2
    /\ call.df = RowIds
    /\ call.field = "genre"
    /\ call.sale_type = "global_sales"
    /\ Len(ret.value) = 2
    /\ ret.value[2] = [field |-> "genre", key |-> <<"A","c">>, count |-> 2030]

\* C5: a negative n ends in a ValueError and returns no groups.
C5_NegativeNRaises ==
    (TopDone /\ call.n < 0) => ret.status = "ValueError"

----------------------------------------------------------------------------
(* The stored rows and the writes: SaleManager.create, GameManager.create, *)
(* Game.save, Sale.save, and the deletions with their on_delete rules.     *)
(* The rows one call of Sale.objects.create writes share the call's        *)
(* number as their primary key.                                            *)

SlugChars ==
    {"a", "b", "c", "d", "e", "g", "m", "n", "p", "s", "t", "w", "_", "-", " "}
        \cup Digits

RECURSIVE Dashed(_)
\* re.sub(r'[-\s]+', '-', value)
Dashed(s) ==
    IF s = <<>> THEN s
    ELSE IF Head(s) \in {"-", " "}
    THEN IF Len(s) > 1 /\ s[2] \in {"-", " "}
         THEN Dashed(Tail(s))
         ELSE <<"-">> \o Dashed(Tail(s))
    ELSE <<Head(s)>> \o Dashed(Tail(s))

RECURSIVE StripDashes(_)
\* str.strip('-_')
StripDashes(s) ==
    IF s = <<>> THEN s
    ELSE IF Head(s) \in {"-", "_"} THEN StripDashes(Tail(s))
    ELSE IF s[Len(s)] \in {"-", "_"} THEN StripDashes(SubSeq(s, 1, Len(s) - 1))
    ELSE s

\* django.utils.text.slugify: lower case, only word characters, blanks and
\* hyphens kept, runs of blanks and hyphens made one hyphen, ends stripped.
slugify(value) ==
    StripDashes(Dashed(SelectSeq(LowerStr(value), LAMBDA c : c \in SlugChars)))

\* Game.save, line 105
GameSlug(name, platform) == slugify(name) \o <<"-">> \o slugify(platform)

\* Sale.save, line 271
SaleSlug(game_slug) == game_slug \o <<"-sales">>

\* The (name, platform) pairs requests carry.
Titles ==
    { <<<<"A">>, <<"c">>>>,
      <<<<"a"," ","b">>, <<"c">>>>,
      <<<<"a","!">>, <<"b","-","c">>>> }

MaxCreates == 2

Started == DOMAIN procs

GameIds == DOMAIN games

SaleIds == DOMAIN sales

Without(f, x) == [y \in DOMAIN f \ {x} |-> f[y]]

InitDb ==
    /\ call = [op |-> "none"]
    /\ ret = Pending
    /\ EmptyDb

\* GameManager.create, lines 33-39, entered from SaleManager.create: the
\* Rating is built and saved.
RatingSave(name, platform) ==
    /\ nextId <= MaxCreates
    /\ ratings' = ratings \cup {nextId}
    /\ procs' = procs @@ (nextId :> [pc |-> "game", name |-> name,
                                      platform |-> platform, slug |-> <<>>])
    /\ nextId' = nextId + 1
    /\ UNCHANGED <<call, ret, games, sales>>

\* GameManager.create, lines 41-51: the Game is built and saved; the
\* INSERT fails on a slug another Game holds, or on a Rating that is gone.
GameSave(c) ==
    /\ c \in Started
    /\ procs[c].pc = "game"
    /\ LET slug == GameSlug(procs[c].name, procs[c].platform)
       IN  IF c \notin ratings \/ \E g \in GameIds : games[g].slug = slug
           THEN /\ procs' = [procs EXCEPT ![c].pc = "game_failed"]
                /\ UNCHANGED <<ratings, games, sales>>
           ELSE /\ games' = games @@ (c :> [name |-> procs[c].name,
                                             platform |-> procs[c].platform,
                                             slug |-> slug, rating |-> {c}])
                /\ procs' = [procs EXCEPT ![c].pc = "sale", ![c].slug = slug]
                /\ UNCHANGED <<ratings, sales>>
    /\ UNCHANGED <<call, ret, nextId>>

\* A failed Sale.save that takes the Game and the Rating back out.
SaleSaveAtomic(c) ==
    /\ c \in Started
    /\ procs[c].pc = "sale"
    /\ LET slug == SaleSlug(procs[c].slug)
       IN  IF \/ c \notin GameIds
              \/ \E s \in SaleIds : sales[s].slug = slug \/ sales[s].game = c
           THEN /\ procs' = [procs EXCEPT ![c].pc = "sale_failed"]
                /\ games' = Without(games, c)
                /\ ratings' = ratings \ {c}
                /\ UNCHANGED sales
           ELSE /\ sales' = sales @@ (c :> [game |-> c, slug |-> slug])
                /\ procs' = [procs EXCEPT ![c].pc = "done"]
                /\ UNCHANGED <<ratings, games>>
    /\ UNCHANGED <<call, ret, nextId>>

\* SaleManager.create, lines 124-125: the Sale is built on the Game object
\* in hand and saved; the INSERT fails on a slug another Sale holds, or on a
\* Game that is gone.
SaleSave(c) ==
    /\ c \in Started
    /\ procs[c].pc = "sale"
    /\ LET slug == SaleSlug(procs[c].slug)
       IN  IF \/ c \notin GameIds
              \/ \E s \in SaleIds : sales[s].slug = slug \/ sales[s].game = c
           THEN /\ procs' = [procs EXCEPT ![c].pc = "sale_failed"]
                /\ UNCHANGED <<ratings, games, sales>>
           ELSE /\ sales' = sales @@ (c :> [game |-> c, slug |-> slug])
                /\ procs' = [procs EXCEPT ![c].pc = "done"]
                /\ UNCHANGED <<ratings, games>>
    /\ UNCHANGED <<call, ret, nextId>>

\* Game.save of a stored Game whose name and platform are now as given:
\* the slug is made again; the UPDATE fails on a slug another Game holds.
GameUpdate(g, name, platform) ==
    /\ g \in GameIds
    /\ LET slug == GameSlug(name, platform)
       IN  IF \E h \in GameIds \ {g} : games[h].slug = slug
           THEN UNCHANGED games
           ELSE games' = [games EXCEPT ![g].name = name,
                                       ![g].platform = platform,
                                       ![g].slug = slug]
    /\ UNCHANGED <<call, ret, ratings, sales, procs, nextId>>

\* Sale.save of a stored Sale: the slug is made again from its Game's.
SaleUpdate(s) ==
    /\ s \in SaleIds
    /\ LET slug == SaleSlug(games[sales[s].game].slug)
       IN  IF \E t \in SaleIds \ {s} : sales[t].slug = slug
           THEN UNCHANGED sales
           ELSE sales' = [sales EXCEPT ![s].slug = slug]
    /\ UNCHANGED <<call, ret, ratings, games, procs, nextId>>

\* A deletion of a Game that leaves the Sale.
GameDeleteAlone(g) ==
    /\ g \in GameIds
    /\ games' = Without(games, g)
    /\ UNCHANGED <<call, ret, ratings, sales, procs, nextId>>

\* Game.delete: Sale.game is on_delete=CASCADE.
GameDelete(g) ==
    /\ g \in GameIds
    /\ sales' = [s \in {t \in SaleIds : sales[t].game # g} |-> sales[s]]
    /\ games' = Without(games, g)
    /\ UNCHANGED <<call, ret, ratings, procs, nextId>>

\* Rating.delete: Game.rating is on_delete=SET_NULL.
RatingDelete(r) ==
    /\ r \in ratings
    /\ games' = [g \in GameIds |->
                    IF games[g].rating = {r}
                    THEN [games[g] EXCEPT !.rating = {}] ELSE games[g]]
    /\ ratings' = ratings \ {r}
    /\ UNCHANGED <<call, ret, sales, procs, nextId>>

NextDb ==
    \/ \E t \in Titles : RatingSave(t[1], t[2])
    \/ \E c \in 1..MaxCreates : GameSave(c)
    \/ \E c \in 1..MaxCreates : SaleSave(c)
    \/ \E g \in 1..MaxCreates, t \in Titles : GameUpdate(g, t[1], t[2])
    \/ \E s \in 1..MaxCreates : SaleUpdate(s)
    \/ \E g \in 1..MaxCreates : GameDelete(g)
    \/ \E r \in 1..MaxCreates : RatingDelete(r)

SpecDb == InitDb /\ [][NextDb]_vars

\* Every stored Sale references a stored Game, and no two Sales one Game.
SaleOwnsOneGame ==
    /\ \A s \in SaleIds : sales[s].game \in GameIds
    /\ \A s, t \in SaleIds : sales[s].game = sales[t].game => s = t

\* A step that deletes a Game deletes the Sale that references it.
GameDeleteCascades ==
    \A g \in GameIds :
        g \notin DOMAIN games' =>
            \A s \in SaleIds : sales[s].game = g => s \notin DOMAIN sales'

\* A step that deletes a Rating nulls the reference of the Game that owned
\* it and leaves that Game, its other attributes and every Sale stored.
RatingDeleteNulls ==
    \A r \in ratings :
        r \notin ratings' =>
            /\ sales' = sales
            /\ DOMAIN games' = GameIds
            /\ \A g \in GameIds :
                  games'[g] = IF games[g].rating = {r}
                              THEN [games[g] EXCEPT !.rating = {}]
                              ELSE games[g]

\* C8: in every reachable state every stored Sale references one stored
\* Game and no Game is referenced by two Sales; deleting a Game deletes its
\* Sale too; deleting a Rating only nulls the owning Game's reference and
\* leaves the Game and its Sale stored.
C8_SaleOwnsGame ==
    /\ []SaleOwnsOneGame
    /\ [][GameDeleteCascades /\ RatingDeleteNulls]_vars

\* a Game whose Rating was deleted still stands with its Sale, next to a
\* Rating whose Game was deleted together with its Sale
C8_Witness ==
    /\ \E g \in GameIds :
          /\ games[g].rating = {}
          /\ g \notin ratings
          /\ \E s \in SaleIds : sales[s].game = g
    /\ \E c \in Started :
          /\ procs[c].pc = "done"
          /\ c \in ratings
          /\ c \notin GameIds
          /\ c \notin SaleIds

GameSlugsDerived ==
    \A g \in GameIds : games[g].slug = GameSlug(games[g].name, games[g].platform)

SaleSlugsDerived ==
    \A s \in SaleIds :
        /\ sales[s].game \in GameIds
        /\ sales[s].slug = games[sales[s].game].slug \o <<"-sales">>

SlugsUnique ==
    /\ \A g, h \in GameIds : games[g].slug = games[h].slug => g = h
    /\ \A s, t \in SaleIds : sales[s].slug = sales[t].slug => s = t

\* C9: in every reachable state every Game's slug is
\* <slugify(name)>-<slugify(platform)> of its current attributes, every
\* Sale's slug is <slug of its game>-sales for the game's current slug, and
\* no two Games and no two Sales share a slug.
C9_SlugsDerivedUnique == GameSlugsDerived /\ SaleSlugsDerived /\ SlugsUnique

\* A step that stores a Sale finds its Game stored, and a step that stores
\* a Game through the managers finds its Rating stored.
WrittenInOrder ==
    /\ \A s \in DOMAIN sales' \ SaleIds : sales'[s].game \in GameIds
    /\ \A g \in DOMAIN games' \ GameIds :
          games'[g].rating # {} /\ games'[g].rating \subseteq ratings

\* A step in which a creation fails takes nothing back.
NoRollback ==
    \A c \in Started :
        (procs'[c].pc \in {"game_failed", "sale_failed"} /\ procs'[c].pc # procs[c].pc)
            => /\ ratings' = ratings
               /\ games' = games
               /\ sales' = sales

\* A creation the unique slug of Game stopped leaves its Rating stored and
\* referenced by no Game; one the unique slug of Sale stopped leaves its
\* Game, with its Rating, stored and referenced by no Sale.
FailedRowsStay ==
    \A c \in Started :
        /\ (procs'[c].pc = "game_failed" /\ procs[c].pc = "game" /\ c \in ratings)
              => /\ c \in ratings'
                 /\ \A g \in DOMAIN games' : games'[g].rating # {c}
        /\ (procs'[c].pc = "sale_failed" /\ procs[c].pc = "sale" /\ c \in GameIds)
              => /\ c \in DOMAIN games'
                 /\ \A s \in DOMAIN sales' : sales'[s].game # c

\* C10: Sale.objects.create writes the Rating, then the Game, then the Sale:
\* no Sale is stored before its Game, no Game made by it before its Rating;
\* a failed Game save or Sale save takes back nothing, so the Rating stays
\* with no Game, or the Game with no Sale, also when creations interleave.
C10_CreateOrderNoRollback ==
    [][WrittenInOrder /\ NoRollback /\ FailedRowsStay]_vars

\* two creations interleaved: the first has its Game stored, with its
\* Rating, and failed on the Sale, whose slug the second one's Sale took
C10_Witness ==
    \E c, d \in Started :
        /\ procs[c].pc = "sale_failed"
        /\ procs[d].pc = "done"
        /\ c < d
        /\ c \in GameIds
        /\ games[c].rating = {c}
        /\ c \in ratings
        /\ \A s \in SaleIds : sales[s].game # c

====
